---- MODULE Spec2Model ----
(***************************************************************************)
(* A model of alchemist.py: the tiered-bomb entity model (Save, Variant,   *)
(* Bomb), the damage estimator Variant.avg_dmg, the renderer               *)
(* Bomb.variant_str, the search matcher Bomb.match, and the scan / rank /  *)
(* print pipeline of main.                                                 *)
(*                                                                         *)
(* Python strings are sequences of one-character strings, so that the      *)
(* substring test of match, the split and int parse of avg_dmg and the     *)
(* concatenations of __str__ and variant_str are computed, not assumed.    *)
(* A field of type int|str is a record [kind, n, s].  A call that may      *)
(* raise returns [raised, value].  avg_dmg is a float in the source; here  *)
(* it is the exact rational in units of 1/200 (x * 3.24 = 2x * 324 / 200), *)
(* which orders and equates scores as the floats do for the small          *)
(* magnitudes drawn here.                                                  *)
(***************************************************************************)
EXTENDS Integers, Sequences, FiniteSets, TLC

VARIABLES
    data,       \* the catalog as loaded from data/bombs.yaml: <<[name, rec]>>
    formulae,   \* read_formulae(): the known item names
    ceiling,    \* config["level"]
    search,     \* sys.argv[1:]
    bombs,      \* read_bombs(): <<[name, bomb]>>, in catalog order
    variants,   \* main's list of (name, bomb, level)
    ranked,     \* the sorted list main iterates over when printing
    idx,        \* position of the scan loop of main in bombs
    pidx,       \* position of the print loop of main in the sorted list
    out,        \* what has been printed so far
    pc,         \* where the run is
    err,        \* the exception that ended the run, "" if none
    ret         \* result of the last call made by a function-level run

vars == <<data, formulae, ceiling, search, bombs, variants, ranked, idx, pidx,
          out, pc, err, ret>>

(***************************************************************************)
(* String literals of the source                                           *)
(***************************************************************************)
\* 'Creatures within the area of effect must make a '
S_Creatures ==
    <<"C","r","e","a","t","u","r","e","s"," ","w","i","t","h","i","n"," ","t",
      "h","e"," ","a","r","e","a"," ","o","f"," ","e","f","f","e","c","t"," ",
      "m","u","s","t"," ","m","a","k","e"," ","a"," ">>

\* 'basic '
S_Basic ==
    <<"b","a","s","i","c"," ">>

\* ' save.\n'
S_SaveEnd ==
    <<" ","s","a","v","e",".","\n">>

\* '  Success: The target is '
S_Success ==
    <<" "," ","S","u","c","c","e","s","s",":"," ","T","h","e"," ","t","a","r",
      "g","e","t"," ","i","s"," ">>

\* '  Failure: The target is '
S_Failure ==
    <<" "," ","F","a","i","l","u","r","e",":"," ","T","h","e"," ","t","a","r",
      "g","e","t"," ","i","s"," ">>

\* '  Critical Failure: The target is '
S_Critical ==
    <<" "," ","C","r","i","t","i","c","a","l"," ","F","a","i","l","u","r","e",
      ":"," ","T","h","e"," ","t","a","r","g","e","t"," ","i","s"," ">>

\* '.\n'
S_LineEnd ==
    <<".","\n">>

\* 'You gain a +'
S_YouGain ==
    <<"Y","o","u"," ","g","a","i","n"," ","a"," ","+">>

\* ' bonus to attack rolls'
S_BonusTo ==
    <<" ","b","o","n","u","s"," ","t","o"," ","a","t","t","a","c","k"," ","r",
      "o","l","l","s">>

\* ' damage'
S_Damage ==
    <<" ","d","a","m","a","g","e">>

\* ' persistent '
S_Persistent ==
    <<" ","p","e","r","s","i","s","t","e","n","t"," ">>

\* ' splash damage'
S_Splash ==
    <<" ","s","p","l","a","s","h"," ","d","a","m","a","g","e">>

\* ' additional '
S_Additional ==
    <<" ","a","d","d","i","t","i","o","n","a","l"," ">>

\* 'The bomb deals '
S_Deals ==
    <<"T","h","e"," ","b","o","m","b"," ","d","e","a","l","s"," ">>

\* ', '
S_Comma ==
    <<","," ">>

\* 'On a hit, the target is '
S_OnHit ==
    <<"O","n"," ","a"," ","h","i","t",","," ","t","h","e"," ","t","a","r","g",
      "e","t"," ","i","s"," ">>

\* 'On a critical hit, the target is '
S_OnCrit ==
    <<"O","n"," ","a"," ","c","r","i","t","i","c","a","l"," ","h","i","t",",",
      " ","t","h","e"," ","t","a","r","g","e","t"," ","i","s"," ">>

\* ' until the start of your next turn'
S_Until ==
    <<" ","u","n","t","i","l"," ","t","h","e"," ","s","t","a","r","t"," ","o",
      "f"," ","y","o","u","r"," ","n","e","x","t"," ","t","u","r","n">>

\* '. '
S_Stop ==
    <<"."," ">>

\* '.'
S_Dot ==
    <<".">>

\* ' '
S_Space ==
    <<" ">>

(***************************************************************************)
(* Python built-ins used by the source                                     *)
(***************************************************************************)

\* s in t, for strings
IsSubstr(s, t) ==
    \E i \in 0..(Len(t) - Len(s)) : SubSeq(t, i + 1, i + Len(s)) = s

Digits == <<"0","1","2","3","4","5","6","7","8","9">>

IsDigit(c) == \E i \in 1..10 : Digits[i] = c

DigitVal(c) == (CHOOSE i \in 1..10 : Digits[i] = c) - 1

\* str(n) of an int
RECURSIVE NatStr(_)
NatStr(n) ==
    IF n < 10 THEN <<Digits[n + 1]>>
    ELSE NatStr(n \div 10) \o <<Digits[(n % 10) + 1]>>

IntStr(n) == IF n < 0 THEN <<"-">> \o NatStr(0 - n) ELSE NatStr(n)

\* int(s) of a str: a non-empty run of decimal digits, anything else raises
\* ValueError (sign, blanks and underscores do not occur in the inputs drawn)
RECURSIVE DigitsVal(_)
DigitsVal(s) ==
    IF s = <<>> THEN 0
    ELSE 10 * DigitsVal(SubSeq(s, 1, Len(s) - 1)) + DigitVal(s[Len(s)])

\* The result of a call: the value returned, or the exception raised
Ok(v) == [exc |-> "", value |-> v]

Raise(e, v) == [exc |-> e, value |-> v]

\* No call has returned yet
NoRet == Ok(FALSE)

ParseInt(s) ==
    IF s # <<>> /\ \A i \in 1..Len(s) : IsDigit(s[i])
    THEN Ok(DigitsVal(s))
    ELSE Raise("ValueError", 0)

\* s.split(c): the pieces of s between the occurrences of c
RECURSIVE Split(_, _)
Split(s, c) ==
    IF \A i \in 1..Len(s) : s[i] # c THEN <<s>>
    ELSE LET k == CHOOSE i \in 1..Len(s) :
                      s[i] = c /\ \A j \in 1..(i - 1) : s[j] # c
         IN  <<SubSeq(s, 1, k - 1)>> \o Split(SubSeq(s, k + 1, Len(s)), c)

\* sep.join(parts)
RECURSIVE Join(_, _)
Join(parts, sep) ==
    IF parts = <<>> THEN <<>>
    ELSE IF Len(parts) = 1 THEN parts[1]
    ELSE parts[1] \o sep \o Join(Tail(parts), sep)

\* An int|str field
IntVal(n) == [kind |-> "int", n |-> n, s |-> <<>>]

StrVal(s) == [kind |-> "str", n |-> 0, s |-> s]

\* bool(x) of an int|str field
Truthy(x) == IF x.kind = "int" THEN x.n # 0 ELSE x.s # <<>>

\* f"{x}" of an int|str field
Format(x) == IF x.kind = "int" THEN IntStr(x.n) ELSE x.s

\* d.get(k, default) of a mapping
Get(d, k, default) == IF k \in DOMAIN d THEN d[k] ELSE default

(***************************************************************************)
(* class Save                                                              *)
(***************************************************************************)
SaveFields == {"type", "basic", "success", "failure", "critical"}

\* Bomb.save = None
NoSave ==
    [present |-> FALSE, type |-> <<>>, basic |-> FALSE, success |-> <<>>,
     failure |-> <<>>, critical |-> <<>>]

\* Save.from_dict: cls(**d) with the dataclass defaults
Save_from_dict(d) ==
    IF ~(DOMAIN d \subseteq SaveFields) \/ "type" \notin DOMAIN d
    THEN Raise("TypeError", NoSave)
    ELSE Ok([present  |-> TRUE,
             type     |-> d["type"],
             basic    |-> Get(d, "basic", FALSE),
             success  |-> Get(d, "success", <<>>),
             failure  |-> Get(d, "failure", <<>>),
             critical |-> Get(d, "critical", <<>>)])

\* Save.__str__
Save_str(s) ==
    S_Creatures \o (IF s.basic THEN S_Basic ELSE <<>>) \o s.type \o S_SaveEnd
    \o (IF s.success # <<>> THEN S_Success \o s.success \o S_LineEnd
        ELSE <<>>)
    \o (IF s.failure # <<>> THEN S_Failure \o s.failure \o S_LineEnd
        ELSE <<>>)
    \o (IF s.critical # <<>> THEN S_Critical \o s.critical \o S_LineEnd
        ELSE <<>>)

(***************************************************************************)
(* class Variant                                                           *)
(***************************************************************************)
VariantFields == {"level", "bonus", "damage", "splash", "persistent"}

NoVariant ==
    [level |-> <<>>, bonus |-> 0, damage |-> IntVal(0), splash |-> 0,
     persistent |-> IntVal(0)]

\* Variant.from_dict: cls(**d) with the dataclass defaults
Variant_from_dict(d) ==
    IF ~(DOMAIN d \subseteq VariantFields) \/ "level" \notin DOMAIN d
    THEN Raise("TypeError", NoVariant)
    ELSE Ok([level      |-> d["level"],
             bonus      |-> Get(d, "bonus", 0),
             damage     |-> Get(d, "damage", IntVal(0)),
             splash     |-> Get(d, "splash", 0),
             persistent |-> Get(d, "persistent", IntVal(0))])

\* The expected number of times persistent damage applies, in hundredths
PersistFactor == 324

\* count, damage = s.split("d"); int(count) * int(damage) / 2, doubled
DiceTwice(s) ==
    LET parts == Split(s, "d")
    IN  IF Len(parts) # 2 THEN Raise("ValueError", 0)
        ELSE LET count  == ParseInt(parts[1])
                 damage == ParseInt(parts[2])
             IN  IF count.exc # "" THEN count
                 ELSE IF damage.exc # "" THEN damage
                 ELSE Ok(count.value * damage.value)

\* avg_dmg with total += persist * 3.24 in place of the assignment
avg_dmg_sticky(v) ==
    LET total == IF v.damage.kind = "int" THEN Ok(2 * (v.splash + v.damage.n))
                 ELSE DiceTwice(v.damage.s)
        persist == IF v.persistent.kind = "int"
                   THEN Ok(2 * (v.persistent.n + v.splash))
                   ELSE DiceTwice(v.persistent.s)
    IN  IF total.exc # "" THEN total
        ELSE IF persist.exc # "" THEN persist
        ELSE Ok(total.value * 100 + persist.value * 324)

\* Variant.avg_dmg, times 200.  The total of splash and damage computed
\* first is discarded by the assignment total = persist * 3.24, but parsing
\* a damage string may raise before that.
avg_dmg(v) ==
    LET total == IF v.damage.kind = "int" THEN Ok(2 * (v.splash + v.damage.n))
                 ELSE DiceTwice(v.damage.s)
        persist == IF v.persistent.kind = "int"
                   THEN Ok(2 * (v.persistent.n + v.splash))
                   ELSE DiceTwice(v.persistent.s)
    IN  IF total.exc # "" THEN total
        ELSE IF persist.exc # "" THEN persist
        ELSE Ok(persist.value * PersistFactor)

(***************************************************************************)
(* class Bomb                                                              *)
(***************************************************************************)
BombFields == {"type", "on_hit", "on_crit", "additional"}

NoBomb ==
    [type |-> <<>>, levels |-> <<>>, on_hit |-> <<>>, on_crit |-> <<>>,
     additional |-> <<>>, save |-> NoSave]

\* The keys of a levels mapping, in iteration order
Keys(levels) == [i \in 1..Len(levels) |-> levels[i].key]

\* Bomb.from_dict.  A mapping with numeric keys is the sequence of its
\* entries [key, rec] in the order of the file; the dict comprehension
\* keeps that order.
Bomb_from_dict(d) ==
    IF "levels" \notin DOMAIN d THEN Raise("KeyError", NoBomb)
    ELSE
    LET levels == d["levels"]
        built  == [i \in 1..Len(levels) |-> Variant_from_dict(levels[i].rec)]
        save   == IF "save" \in DOMAIN d THEN Save_from_dict(d["save"])
                  ELSE Ok(NoSave)
        rest   == DOMAIN d \ {"levels", "save"}
    IN  IF \E i \in 1..Len(levels) : built[i].exc # ""
        THEN Raise("TypeError", NoBomb)
        ELSE IF save.exc # "" THEN Raise("TypeError", NoBomb)
        ELSE IF ~(rest \subseteq BombFields) \/ "type" \notin rest
        THEN Raise("TypeError", NoBomb)
        ELSE Ok([type       |-> d["type"],
                 levels     |-> [i \in 1..Len(levels) |->
                                   [key     |-> levels[i].key,
                                    variant |-> built[i].value]],
                 on_hit     |-> Get(d, "on_hit", <<>>),
                 on_crit    |-> Get(d, "on_crit", <<>>),
                 additional |-> Get(d, "additional", <<>>),
                 save       |-> save.value])

\* levels[level]
Lookup(levels, level) ==
    IF \E i \in 1..Len(levels) : levels[i].key = level
    THEN Ok(levels[CHOOSE i \in 1..Len(levels) : levels[i].key = level].variant)
    ELSE Raise("KeyError", NoVariant)

\* The list damages with the splash phrase appended before the persistent one
Damages_reordered(self, variant) ==
    (IF Truthy(variant.damage)
     THEN <<Format(variant.damage) \o S_Space \o self.type \o S_Damage>>
     ELSE <<>>)
    \o (IF variant.splash # 0
        THEN <<IntStr(variant.splash) \o S_Space \o self.type \o S_Splash>>
        ELSE <<>>)
    \o (IF Truthy(variant.persistent)
        THEN <<Format(variant.persistent) \o S_Persistent \o self.type
               \o S_Damage>>
        ELSE <<>>)
    \o (IF self.additional # <<>>
        THEN <<Format(variant.damage) \o S_Additional \o self.additional
               \o S_Damage>>
        ELSE <<>>)

\* The list damages of variant_str
Damages(self, variant) ==
    (IF Truthy(variant.damage)
     THEN <<Format(variant.damage) \o S_Space \o self.type \o S_Damage>>
     ELSE <<>>)
    \o (IF Truthy(variant.persistent)
        THEN <<Format(variant.persistent) \o S_Persistent \o self.type
               \o S_Damage>>
        ELSE <<>>)
    \o (IF variant.splash # 0
        THEN <<IntStr(variant.splash) \o S_Space \o self.type \o S_Splash>>
        ELSE <<>>)
    \o (IF self.additional # <<>>
        THEN <<Format(variant.damage) \o S_Additional \o self.additional
               \o S_Damage>>
        ELSE <<>>)

\* The list description of variant_str
Description(self, variant) ==
    (IF variant.bonus # 0
     THEN <<S_YouGain \o IntStr(variant.bonus) \o S_BonusTo>>
     ELSE <<>>)
    \o (IF Damages(self, variant) # <<>>
        THEN <<S_Deals \o Join(Damages(self, variant), S_Comma)>>
        ELSE <<>>)
    \o (IF self.on_hit # <<>>
        THEN <<S_OnHit \o self.on_hit \o S_Until>>
        ELSE <<>>)
    \o (IF self.on_crit # <<>>
        THEN <<S_OnCrit \o self.on_crit \o S_Until>>
        ELSE <<>>)

\* Bomb.variant_str
variant_str(self, level) ==
    LET variant == Lookup(self.levels, level)
    IN  IF variant.exc # "" THEN Raise("KeyError", <<>>)
        ELSE Ok((IF self.save.present THEN Save_str(self.save) ELSE <<>>)
                \o Join(Description(self, variant.value), S_Stop) \o S_Dot)

\* One token of Bomb.match: the value of check after negation
TokenPasses(self, token) ==
    LET negate == token[1] = "-"
        item   == IF negate THEN Tail(token) ELSE token
        check  == \/ IsSubstr(item, self.type)
                  \/ IsSubstr(item, self.on_hit)
                  \/ IsSubstr(item, self.on_crit)
                  \/ IsSubstr(item, self.additional)
                  \/ (self.save.present /\ IsSubstr(item, Save_str(self.save)))
    IN  IF negate THEN ~check ELSE check

\* Bomb.match: the loop over the tokens, left to right, returning False at
\* the first token that fails; item[0] of an empty token raises IndexError
RECURSIVE match(_, _)
match(self, tokens) ==
    IF tokens = <<>> THEN Ok(TRUE)
    ELSE IF Head(tokens) = <<>> THEN Raise("IndexError", FALSE)
    ELSE IF ~TokenPasses(self, Head(tokens)) THEN Ok(FALSE)
    ELSE match(self, Tail(tokens))

(***************************************************************************)
(* Module-level functions                                                  *)
(***************************************************************************)

\* line not in formulae / bomb in formulae: membership in a list
InList(x, list) == \E i \in 1..Len(list) : list[i] = x

\* read_bombs: every record of the catalog replaced by Bomb.from_dict of
\* it, in catalog order; the first malformed record ends the call
read_bombs(catalog) ==
    LET built == [i \in 1..Len(catalog) |-> Bomb_from_dict(catalog[i].rec)]
    IN  IF \E i \in 1..Len(catalog) : built[i].exc # ""
        THEN Raise(built[CHOOSE i \in 1..Len(catalog) :
                             /\ built[i].exc # ""
                             /\ \A j \in 1..(i - 1) : built[j].exc = ""].exc,
                   <<>>)
        ELSE Ok([i \in 1..Len(catalog) |->
                   [name |-> catalog[i].name, bomb |-> built[i].value]])

\* parse_bomb.  The header is kept as the values it formats (name, tier
\* label, level, score); the body is variant_str.
parse_bomb(name, bomb, level) ==
    LET variant == Lookup(bomb.levels, level)
        score   == avg_dmg(variant.value)
        body    == variant_str(bomb, level)
    IN  IF variant.exc # "" THEN Raise("KeyError", <<>>)
        ELSE IF score.exc # "" THEN Raise(score.exc, <<>>)
        ELSE IF body.exc # "" THEN Raise(body.exc, <<>>)
        ELSE Ok([kind  |-> "block", name |-> name,
                 label |-> variant.value.level, level |-> level,
                 score |-> score.value, text |-> body.value])

\* print(bomb) of an item that is not in the formula book
NameLine(name) ==
    [kind |-> "name", name |-> name, label |-> <<>>, level |-> 0,
     score |-> 0, text |-> <<>>]

\* The tier loop with the break taken at level >= limit
RECURSIVE SelectVersion_ge(_, _, _)
SelectVersion_ge(keys, limit, version) ==
    IF keys = <<>> THEN version
    ELSE IF Head(keys) >= limit THEN version
    ELSE SelectVersion_ge(Tail(keys), limit, Head(keys))

\* The tier loop with version assigned before the test of the break
RECURSIVE SelectVersion_late(_, _, _)
SelectVersion_late(keys, limit, version) ==
    IF keys = <<>> THEN version
    ELSE IF Head(keys) > limit THEN Head(keys)
    ELSE SelectVersion_late(Tail(keys), limit, Head(keys))

\* The tier loop of main: version after the keys left to visit
RECURSIVE SelectVersion(_, _, _)
SelectVersion(keys, limit, version) ==
    IF keys = <<>> THEN version
    ELSE IF Head(keys) > limit THEN version
    ELSE SelectVersion(Tail(keys), limit, Head(keys))

\* The sort key of main: x[1].levels[x[2]].avg_dmg
SortKey(x) ==
    LET variant == Lookup(x.bomb.levels, x.level)
    IN  IF variant.exc # "" THEN Raise("KeyError", 0)
        ELSE avg_dmg(variant.value)

\* The order of sorted without reverse=True
Before_ascending(ka, kb) == ka <= kb

\* Whether a comes before b in the sorted list when a's key is ka, b's kb
\* and a precedes b in the input: reverse=True keeps equal keys in order
Before(ka, kb) == ka >= kb

\* sorted(..., reverse=True) on a list of [item, key], by insertion: stable
RECURSIVE InsertSorted(_, _)
InsertSorted(done, e) ==
    IF done = <<>> THEN <<e>>
    ELSE IF Before(Head(done).key, e.key)
    THEN <<Head(done)>> \o InsertSorted(Tail(done), e)
    ELSE <<e>> \o done

RECURSIVE SortDecorated(_)
SortDecorated(list) ==
    IF list = <<>> THEN <<>>
    ELSE InsertSorted(SortDecorated(SubSeq(list, 1, Len(list) - 1)),
                      list[Len(list)])

\* sorted(variants, key=..., reverse=True): the keys are computed first,
\* and the first one that raises ends the call
SortVariants(list) ==
    LET keys == [i \in 1..Len(list) |-> SortKey(list[i])]
    IN  IF \E i \in 1..Len(list) : keys[i].exc # ""
        THEN Raise(keys[CHOOSE i \in 1..Len(list) :
                            /\ keys[i].exc # ""
                            /\ \A j \in 1..(i - 1) : keys[j].exc = ""].exc,
                   <<>>)
        ELSE LET decorated == [i \in 1..Len(list) |->
                                 [item |-> list[i], key |-> keys[i].value]]
                 sorted    == SortDecorated(decorated)
             IN  Ok([i \in 1..Len(list) |-> sorted[i].item])

(***************************************************************************)
(* The inputs of a run: catalog, formula book, level, search tokens        *)
(***************************************************************************)
T_fire == <<"f","i","r","e">>

T_acid == <<"a","c","i","d">>

L_lesser == <<"l","e","s","s","e","r">>

L_greater == <<"g","r","e","a","t","e","r">>

D_1d6 == <<"1","d","6">>

\* Tier records of the catalog, with scores 0, 3.24, 6.48 and 9.72, and two
\* whose persistent or damage string is not dice notation
V_plain == [level |-> L_lesser, damage |-> StrVal(D_1d6)]

V_splash == [level |-> L_lesser, splash |-> 1]

V_flat ==
    [level |-> L_greater, bonus |-> 1, damage |-> IntVal(2), splash |-> 1,
     persistent |-> IntVal(1)]

V_dice ==
    [level |-> L_greater, damage |-> StrVal(D_1d6),
     persistent |-> StrVal(D_1d6)]

V_badpersistent == [level |-> L_lesser, persistent |-> StrVal(<<"1","x","6">>)]

V_baddamage == [level |-> L_lesser, damage |-> StrVal(<<"d","6">>)]

\* The numbers of bombs, of level keys and of search tokens drawn
MaxBombs == 3

MaxKey == 3

MaxTokens == 2

BombNames ==
    <<"acid flask", "alchemist's fire", "bottled lightning", "frost vial",
      "thunderstone">>

Names(n) == {BombNames[i] : i \in 1..n}

\* The formula books over the first n names, in the order of BombNames
Books(n) ==
    {SelectSeq(BombNames, LAMBDA x : x \in S) : S \in SUBSET Names(n)}

\* The sequences over S of length lo..hi
SeqsOf(S, lo, hi) == UNION {[1..n -> S] : n \in lo..hi}

\* levels mappings: 1..MaxKey distinct keys in any file order
LevelMaps(pool) ==
    {m \in SeqsOf([key : 1..MaxKey, rec : pool], 1, MaxKey) :
        \A i, j \in 1..Len(m) : i # j => m[i].key # m[j].key}

\* A catalog: the n-th record under the n-th name
Catalog(recs) == [i \in 1..Len(recs) |-> [name |-> BombNames[i], rec |-> recs[i]]]

OneTier(type, rec) == [type |-> type, levels |-> <<[key |-> 1, rec |-> rec]>>]

\* One bomb with any tiers, any level
TierInputs ==
    [data     : {Catalog(<<[type |-> T_fire, levels |-> m]>>) :
                    m \in LevelMaps({V_splash, V_dice})},
     formulae : Books(1),
     ceiling  : 0..MaxKey,
     search   : {<<>>}]

\* Up to MaxBombs bombs of one tier each, any scores
RankInputs ==
    [data     : {Catalog(recs) :
                    recs \in SeqsOf({OneTier(T_fire, v) :
                                        v \in {V_plain, V_splash, V_flat,
                                               V_dice, V_badpersistent}},
                                    1, MaxBombs)},
     formulae : Books(MaxBombs),
     ceiling  : {1},
     search   : {<<>>}]

\* Two bombs, any search
SearchInputs ==
    [data     : {Catalog(recs) :
                    recs \in SeqsOf({OneTier(t, v) :
                                        t \in {T_fire, T_acid},
                                        v \in {V_dice, V_baddamage}}, 2, 2)},
     formulae : Books(2),
     ceiling  : {1},
     search   : SeqsOf({T_fire, <<"-">> \o T_fire, <<"-">> \o T_acid, <<>>},
                       0, MaxTokens)]

\* Records that the entity model rejects, after a well-formed one
MalformedRecords ==
    { [type |-> T_fire],
      [levels |-> <<[key |-> 1, rec |-> V_dice]>>],
      [type |-> T_fire, levels |-> <<[key |-> 1, rec |-> V_dice]>>,
       name |-> T_acid],
      [type |-> T_fire, levels |-> <<[key |-> 1, rec |-> [bonus |-> 1]]>>],
      [type |-> T_fire,
       levels |-> <<[key |-> 1, rec |-> [level |-> L_lesser, dc |-> 1]]>>],
      [type |-> T_fire, levels |-> <<[key |-> 1, rec |-> V_dice]>>,
       save |-> [basic |-> TRUE]],
      [type |-> T_fire, levels |-> <<[key |-> 1, rec |-> V_dice]>>,
       save |-> [type |-> T_acid, dc |-> 1]] }

MalformedInputs ==
    [data     : {Catalog(<<OneTier(T_fire, V_dice), r>>) :
                    r \in MalformedRecords},
     formulae : Books(2),
     ceiling  : {1},
     search   : {<<>>}]

Inputs == TierInputs \cup RankInputs \cup SearchInputs \cup MalformedInputs

Init ==
    /\ \E in \in Inputs :
          /\ data = in.data
          /\ formulae = in.formulae
          /\ ceiling = in.ceiling
          /\ search = in.search
    /\ bombs = <<>>
    /\ variants = <<>>
    /\ ranked = <<>>
    /\ idx = 0
    /\ pidx = 0
    /\ out = <<>>
    /\ pc = "start"
    /\ err = ""
    /\ ret = NoRet

(***************************************************************************)
(* main, one step at a time                                                *)
(***************************************************************************)
\* bombs = read_bombs()
ReadBombs ==
    /\ pc = "start"
    /\ LET r == read_bombs(data)
       IN  IF r.exc # ""
           THEN /\ pc' = "aborted"
                /\ err' = r.exc
                /\ UNCHANGED <<bombs, idx>>
           ELSE /\ bombs' = r.value
                /\ idx' = 1
                /\ pc' = "scan"
                /\ UNCHANGED err
    /\ UNCHANGED <<data, formulae, ceiling, search, variants, ranked, pidx, out,
                   ret>>

\* The filter without its not: search and bombs[bomb].match(search)
Filtered_unnegated(bomb) ==
    IF search = <<>> THEN Ok(FALSE)
    ELSE match(bomb, search)

\* search and not bombs[bomb].match(search), for the bomb the loop is at
Filtered(bomb) ==
    IF search = <<>> THEN Ok(FALSE)
    ELSE LET m == match(bomb, search)
         IN  IF m.exc # "" THEN m ELSE Ok(~m.value)

\* match raises: the run ends
ScanRaise ==
    /\ pc = "scan" /\ idx <= Len(bombs)
    /\ Filtered(bombs[idx].bomb).exc # ""
    /\ pc' = "aborted"
    /\ err' = Filtered(bombs[idx].bomb).exc
    /\ UNCHANGED <<data, formulae, ceiling, search, bombs, variants, ranked,
                   idx, pidx, out, ret>>

\* The bomb does not match the search: continue
ScanSkip ==
    /\ pc = "scan" /\ idx <= Len(bombs)
    /\ Filtered(bombs[idx].bomb) = Ok(TRUE)
    /\ idx' = idx + 1
    /\ UNCHANGED <<data, formulae, ceiling, search, bombs, variants, ranked,
                   pidx, out, pc, err, ret>>

\* The bomb is not in the formula book: print its name, continue
ScanUnknown ==
    /\ pc = "scan" /\ idx <= Len(bombs)
    /\ Filtered(bombs[idx].bomb) = Ok(FALSE)
    /\ ~InList(bombs[idx].name, formulae)
    /\ out' = Append(out, NameLine(bombs[idx].name))
    /\ idx' = idx + 1
    /\ UNCHANGED <<data, formulae, ceiling, search, bombs, variants, ranked,
                   pidx, pc, err, ret>>

\* The bomb is known: pick its tier, and keep it if there is one
ScanKnown ==
    /\ pc = "scan" /\ idx <= Len(bombs)
    /\ Filtered(bombs[idx].bomb) = Ok(FALSE)
    /\ InList(bombs[idx].name, formulae)
    /\ LET version == SelectVersion(Keys(bombs[idx].bomb.levels), ceiling, 0)
       IN  variants' =
             IF version # 0
             THEN Append(variants, [name  |-> bombs[idx].name,
                                    bomb  |-> bombs[idx].bomb,
                                    level |-> version])
             ELSE variants
    /\ idx' = idx + 1
    /\ UNCHANGED <<data, formulae, ceiling, search, bombs, ranked, pidx, out,
                   pc, err, ret>>

\* The loop is over: sorted(variants, ...)
Sort ==
    /\ pc = "scan" /\ idx > Len(bombs)
    /\ LET r == SortVariants(variants)
       IN  IF r.exc # ""
           THEN /\ pc' = "aborted"
                /\ err' = r.exc
                /\ UNCHANGED <<ranked, pidx>>
           ELSE /\ ranked' = r.value
                /\ pidx' = 1
                /\ pc' = "print"
                /\ UNCHANGED err
    /\ UNCHANGED <<data, formulae, ceiling, search, bombs, variants, idx, out,
                   ret>>

\* print(parse_bomb(name, bomb, level)) for the next entry of the sorted list
PrintBlock ==
    /\ pc = "print" /\ pidx <= Len(ranked)
    /\ LET r == parse_bomb(ranked[pidx].name, ranked[pidx].bomb,
                           ranked[pidx].level)
       IN  IF r.exc # ""
           THEN /\ pc' = "aborted"
                /\ err' = r.exc
                /\ UNCHANGED <<out, pidx>>
           ELSE /\ out' = Append(out, r.value)
                /\ pidx' = pidx + 1
                /\ UNCHANGED <<pc, err>>
    /\ UNCHANGED <<data, formulae, ceiling, search, bombs, variants, ranked,
                   idx, ret>>

\* main returns
Finish ==
    /\ pc = "print" /\ pidx > Len(ranked)
    /\ pc' = "done"
    /\ UNCHANGED <<data, formulae, ceiling, search, bombs, variants, ranked,
                   idx, pidx, out, err, ret>>

Next ==
    \/ ReadBombs
    \/ ScanRaise
    \/ ScanSkip
    \/ ScanUnknown
    \/ ScanKnown
    \/ Sort
    \/ PrintBlock
    \/ Finish

Spec == Init /\ [][Next]_vars

(***************************************************************************)
(* Properties of main                                                      *)
(***************************************************************************)
Ascending(keys) == \A i, j \in 1..Len(keys) : i < j => keys[i] < keys[j]

KeySet(bomb) == {bomb.levels[i].key : i \in 1..Len(bomb.levels)}

Max(S) == CHOOSE x \in S : \A y \in S : y <= x

\* The strings a token is looked for in
Haystacks(bomb) ==
    {bomb.type, bomb.on_hit, bomb.on_crit, bomb.additional}
    \cup (IF bomb.save.present THEN {Save_str(bomb.save)} ELSE {})

Found(s, bomb) == \E h \in Haystacks(bomb) : IsSubstr(s, h)

\* A token passes: found, or for a token with a leading "-" the rest not found
TokenOK(bomb, token) ==
    IF token # <<>> /\ token[1] = "-" THEN ~Found(Tail(token), bomb)
    ELSE Found(token, bomb)

AllPass(bomb, tokens) == \A i \in 1..Len(tokens) : TokenOK(bomb, tokens[i])

\* The tiers main has kept for the item called name
Chosen(name) ==
    {variants[i].level : i \in {k \in 1..Len(variants) : variants[k].name = name}}

Blocks == SelectSeq(out, LAMBDA e : e.kind = "block")

BlocksOf(name) == {i \in 1..Len(Blocks) : Blocks[i].name = name}

NamePrinted(name) == \E i \in 1..Len(out) : out[i] = NameLine(name)

\* C1: for every scanned, known, matching bomb whose level keys iterate in
\* ascending order, the tier main has selected is the greatest key that is
\* <= the ceiling, and when no key is <= the ceiling the item is not in the
\* ranked set.
C1_LevelSelector ==
    \A j \in 1..Len(bombs) :
        ( /\ j < idx
          /\ InList(bombs[j].name, formulae)
          /\ AllPass(bombs[j].bomb, search)
          /\ Ascending(Keys(bombs[j].bomb.levels)) )
        => LET eligible == {k \in KeySet(bombs[j].bomb) : k <= ceiling}
           IN  IF eligible = {} THEN Chosen(bombs[j].name) = {}
               ELSE Chosen(bombs[j].name) = {Max(eligible)}

\* Three tiers in ascending order, the ceiling between the second and the
\* third: the second is selected
C1_Witness ==
    \E i \in 1..Len(variants) :
        LET keys == Keys(variants[i].bomb.levels)
        IN  /\ Len(keys) = 3
            /\ Ascending(keys)
            /\ keys[2] <= ceiling /\ ceiling < keys[3]
            /\ variants[i].level = keys[2]

\* C2: in a run that completes, the blocks are printed in non-increasing
\* order of score, each block's score being the estimate of the tier
\* selected for its item.
C2_Ranking ==
    pc = "done" =>
        /\ \A i \in 1..(Len(Blocks) - 1) : Blocks[i].score >= Blocks[i + 1].score
        /\ \A i \in 1..Len(Blocks) :
              \E k \in 1..Len(variants) :
                  /\ variants[k].name = Blocks[i].name
                  /\ Ok(Blocks[i].score) =
                       avg_dmg(Lookup(variants[k].bomb.levels,
                                      variants[k].level).value)

\* Three items selected with scores low, high, middle, and all printed
C2_Witness ==
    /\ pc = "done"
    /\ Len(variants) = 3
    /\ Len(Blocks) = 3
    /\ SortKey(variants[1]).value < SortKey(variants[3]).value
    /\ SortKey(variants[3]).value < SortKey(variants[2]).value

C6_NoPartialOutput == pc = "aborted" => out = <<>>

\* C8 as stated: in a run that completes, a known item is rendered, exactly
\* once, if and only if it passes the search and has a level key <= the
\* ceiling; otherwise it produces no output at all.
C8_EmittedSet ==
    pc = "done" =>
        \A j \in 1..Len(bombs) :
            InList(bombs[j].name, formulae)
            => /\ ~NamePrinted(bombs[j].name)
               /\ Cardinality(BlocksOf(bombs[j].name)) =
                    IF /\ AllPass(bombs[j].bomb, search)
                       /\ \E k \in KeySet(bombs[j].bomb) : k <= ceiling
                    THEN 1 ELSE 0

\* C9: every entry of the ranked set, before and after sorting, has as its
\* level a key of its bomb that is <= the ceiling, so no lookup of that
\* level fails; the only KeyError of a run is the one of a record without
\* levels, raised by read_bombs.
C9_TierLookups ==
    /\ \A i \in 1..Len(variants) :
          /\ variants[i].level \in KeySet(variants[i].bomb)
          /\ variants[i].level <= ceiling
          /\ SortKey(variants[i]).exc # "KeyError"
    /\ \A i \in 1..Len(ranked) :
          /\ ranked[i].level \in KeySet(ranked[i].bomb)
          /\ ranked[i].level <= ceiling
          /\ parse_bomb(ranked[i].name, ranked[i].bomb, ranked[i].level).exc
               # "KeyError"
          /\ variant_str(ranked[i].bomb, ranked[i].level).exc # "KeyError"
    /\ err = "KeyError" => pc = "aborted" /\ bombs = <<>>

\* A block printed for a bomb whose keys are not in ascending order and
\* that has a key above the ceiling
C9_Witness ==
    /\ pc = "done"
    /\ \E i \in 1..Len(ranked) :
          /\ ~Ascending(Keys(ranked[i].bomb.levels))
          /\ \E k \in KeySet(ranked[i].bomb) : k > ceiling
          /\ BlocksOf(ranked[i].name) # {}

\* C10 as stated: the levels of every bomb built by Bomb.from_dict iterate in
\* ascending order of key.
C10_AscendingTiers ==
    \A j \in 1..Len(bombs) : Ascending(Keys(bombs[j].bomb.levels))

(***************************************************************************)
(* Runs of a single method on one bomb: avg_dmg and variant_str            *)
(***************************************************************************)
W_dazzled == <<"d","a","z","z","l","e","d">>

W_Will == <<"W","i","l","l">>

\* The largest flat amount and the largest number of dice drawn
MaxAmount == 2

DieSides == {4, 6, 10}

\* persistent as drawn: an int p, or the dice notation of c dice of d sides
PersistentChoices ==
    [kind : {"int"}, p : 0..MaxAmount, c : {0}, d : {0}]
    \cup [kind : {"dice"}, p : {0}, c : 0..MaxAmount, d : DieSides]

\* f"{c}d{d}"
DiceNotation(c, d) == IntStr(c) \o <<"d">> \o IntStr(d)

VariantChoices ==
    [additional : {<<>>, T_acid},
     on_hit     : {<<>>, W_dazzled},
     on_crit    : {<<>>, W_dazzled},
     save       : BOOLEAN,
     bonus      : 0..1,
     damage     : {IntVal(0), IntVal(MaxAmount), StrVal(D_1d6)},
     splash     : 0..MaxAmount,
     persistent : PersistentChoices]

\* The catalog record of a choice: one tier, at level 1
VariantRecord(c) ==
    LET tier == [level      |-> L_lesser,
                 bonus      |-> c.bonus,
                 damage     |-> c.damage,
                 splash     |-> c.splash,
                 persistent |-> IF c.persistent.kind = "int"
                                THEN IntVal(c.persistent.p)
                                ELSE StrVal(DiceNotation(c.persistent.c,
                                                         c.persistent.d))]
        base == [type       |-> T_fire,
                 levels     |-> <<[key |-> 1, rec |-> tier]>>,
                 on_hit     |-> c.on_hit,
                 on_crit    |-> c.on_crit,
                 additional |-> c.additional]
    IN  IF c.save
        THEN base @@ [save |-> [type |-> W_Will, basic |-> TRUE,
                                failure |-> W_dazzled]]
        ELSE base

InitCall(choice, rec, tokens) ==
    /\ data = choice
    /\ bombs = <<[name |-> BombNames[1], bomb |-> Bomb_from_dict(rec).value]>>
    /\ search = tokens
    /\ formulae = <<>>
    /\ ceiling = 1
    /\ variants = <<>>
    /\ ranked = <<>>
    /\ idx = 0
    /\ pidx = 0
    /\ out = <<>>
    /\ pc = "call"
    /\ err = ""
    /\ ret = NoRet

InitVariant == \E c \in VariantChoices : InitCall(c, VariantRecord(c), <<>>)

\* The one tier of the bomb of a single-method run
TheVariant == Lookup(bombs[1].bomb.levels, ceiling).value

\* bombs[...].levels[1].avg_dmg
CallAvgDmg ==
    /\ pc = "call"
    /\ ret' = avg_dmg(TheVariant)
    /\ pc' = "avg_dmg"
    /\ UNCHANGED <<data, formulae, ceiling, search, bombs, variants, ranked,
                   idx, pidx, out, err>>

\* bombs[...].variant_str(1)
CallVariantStr ==
    /\ pc = "call"
    /\ ret' = variant_str(bombs[1].bomb, ceiling)
    /\ pc' = "variant_str"
    /\ UNCHANGED <<data, formulae, ceiling, search, bombs, variants, ranked,
                   idx, pidx, out, err>>

NextVariant == CallAvgDmg \/ CallVariantStr

SpecVariant == InitVariant /\ [][NextVariant]_vars

\* C5: the score is 3.24 times the persistent magnitude: (p + splash) * 3.24
\* for an integer persistent p, c * d / 2 * 3.24 for the dice string of c
\* dice of d sides (in units of 1/200: 648 and 324); and it is the same for
\* every value of damage and bonus.
C5_DamageEstimator ==
    pc = "avg_dmg" =>
        /\ ret = Ok(IF data.persistent.kind = "int"
                    THEN (data.persistent.p + data.splash) * 648
                    ELSE data.persistent.c * data.persistent.d * 324)
        /\ \A dmg \in {IntVal(0), IntVal(1), IntVal(7), StrVal(D_1d6),
                       StrVal(DiceNotation(2, 10))}, b \in 0..3 :
              avg_dmg([TheVariant EXCEPT !.damage = dmg, !.bonus = b]) = ret

\* A dice persistent with splash, damage and bonus all set, scored
C5_Witness ==
    /\ pc = "avg_dmg"
    /\ data.persistent.kind = "dice"
    /\ data.persistent.c = 2 /\ data.persistent.d = 10
    /\ data.splash > 0 /\ Truthy(data.damage) /\ data.bonus > 0
    /\ ret = Ok(6480)

\* The sub-phrases of the damage sentence, in the order damage, persistent,
\* splash, additional, each present when its source is non-zero / non-empty
C7_Phrases ==
    LET v == TheVariant
        b == bombs[1].bomb
        all == << [on   |-> Truthy(v.damage),
                   text |-> Format(v.damage) \o S_Space \o b.type \o S_Damage],
                  [on   |-> Truthy(v.persistent),
                   text |-> Format(v.persistent) \o S_Persistent \o b.type
                            \o S_Damage],
                  [on   |-> v.splash # 0,
                   text |-> IntStr(v.splash) \o S_Space \o b.type \o S_Splash],
                  [on   |-> b.additional # <<>>,
                   text |-> Format(v.damage) \o S_Additional \o b.additional
                            \o S_Damage] >>
        kept == SelectSeq(all, LAMBDA x : x.on)
    IN  [i \in 1..Len(kept) |-> kept[i].text]

\* C7: variant_str holds the sentence "The bomb deals ..." if and only if
\* one of damage, persistent, splash, additional is non-zero / non-empty,
\* and then the sentence lists the sub-phrases that apply in the order
\* damage, persistent, splash, additional.
C7_DealsSentence ==
    pc = "variant_str" =>
        /\ ret.exc = ""
        /\ IsSubstr(S_Deals, ret.value) <=> C7_Phrases # <<>>
        /\ C7_Phrases # <<>> =>
              IsSubstr(S_Deals \o Join(C7_Phrases, S_Comma) \o S_Dot, ret.value)

\* A rendering with all four sub-phrases
C7_Witness ==
    /\ pc = "variant_str"
    /\ Len(C7_Phrases) = 4
    /\ IsSubstr(S_Deals, ret.value)

(***************************************************************************)
(* Runs of Bomb.match on one bomb                                          *)
(***************************************************************************)
MatchChoices ==
    [type       : {T_fire, T_acid},
     on_hit     : {<<>>, T_acid},
     on_crit    : {<<>>, T_fire},
     additional : {<<>>, T_acid},
     save       : BOOLEAN]

MatchRecord(c) ==
    LET base == [type       |-> c.type,
                 levels     |-> <<[key |-> 1, rec |-> V_dice]>>,
                 on_hit     |-> c.on_hit,
                 on_crit    |-> c.on_crit,
                 additional |-> c.additional]
    IN  IF c.save
        THEN base @@ [save |-> [type |-> W_Will, failure |-> T_fire]]
        ELSE base

W_save == <<"s","a","v","e">>

\* Tokens: plain and negated, one that only the text of a save holds, the
\* bare "-" and the empty argument
MatchTokens ==
    {T_fire, <<"i","r">>, <<"-">> \o T_acid, W_save, <<"-">> \o W_save,
     <<"-">>, <<>>}

InitMatch ==
    \E c \in MatchChoices, tokens \in SeqsOf(MatchTokens, 0, MaxTokens) :
        InitCall(c, MatchRecord(c), tokens)

\* bombs[...].match(search)
CallMatch ==
    /\ pc = "call"
    /\ ret' = match(bombs[1].bomb, search)
    /\ pc' = "match"
    /\ UNCHANGED <<data, formulae, ceiling, search, bombs, variants, ranked,
                   idx, pidx, out, err>>

NextMatch == CallMatch

SpecMatch == InitMatch /\ [][NextMatch]_vars

\* C4 as stated: for every bomb and every sequence of tokens, match returns
\* true exactly when every token passes.
C4_MatchContract == pc = "match" => ret = Ok(AllPass(bombs[1].bomb, search))

====
